---- MODULE Spec2Model ----
(***************************************************************************)
(* ChessEngine (src/chess_engine.py): iterative-deepening alpha-beta       *)
(* search with move ordering and a position_history dictionary, on top of  *)
(* ChessEvaluator.evaluate (src/evaluation.py).                            *)
(*                                                                         *)
(* The rules engine (python-chess) is an outside library.  It is modelled  *)
(* by a finite game: a table of positions (side to move, piece placement,  *)
(* game-over status, check flag, the evaluator's White-positive score and  *)
(* piece-protection score) and a table of moves between them (the piece    *)
(* moved, the piece standing on the destination square, the promotion,     *)
(* the destination file and rank), closed under the exchange of the two    *)
(* sides.  Everything the engine computes from these is computed here the  *)
(* way the source computes it.                                             *)
(***************************************************************************)
EXTENDS Integers, Sequences, FiniteSets, TLC

(***************************************************************************)
(* Bounds of the model.                                                    *)
(***************************************************************************)
MaxDepth == 5
MaxTimeLimit == 2
MaxPieces == 3

(***************************************************************************)
(* Values of the source.                                                   *)
(***************************************************************************)
Inf == 1000000
NoMove == 0
WinningThreshold == 500
MateScore == 10000
CheckScore == 30
WinningCheckBonus == 50
CheckerCapturedPenalty == 100
PromotionScore == 800
RepetitionPenalty == 400

WHITE == TRUE
BLACK == FALSE

PIECE_VALUES == [P |-> 100, N |-> 320, B |-> 330, R |-> 500, Q |-> 900, K |-> 20000]

Abs(x) == IF x < 0 THEN -x ELSE x

(***************************************************************************)
(* The game: what the board object answers.                                *)
(***************************************************************************)
Pos(t, f, st, ck, raw, prot) ==
    [turn |-> t, fen |-> f, status |-> st, check |-> ck, raw |-> raw, prot |-> prot]

BasePositions == <<
    Pos(WHITE,  1, "play",         FALSE,   50,  10),   \*  1  White can mate by a king capture
    Pos(BLACK,  2, "checkmate",    TRUE,     0,   0),   \*  2  Black is checkmated
    Pos(BLACK,  3, "play",         FALSE,  100,   5),   \*  3  Black can mate in one
    Pos(BLACK,  4, "play",         TRUE,   620,  15),   \*  4  Black is in check, White far ahead
    Pos(WHITE,  5, "checkmate",    TRUE,     0,   0),   \*  5  White is checkmated
    Pos(WHITE,  6, "play",         FALSE,  -80,  -5),   \*  6
    Pos(BLACK,  7, "play",         FALSE,   40,   0),   \*  7
    Pos(BLACK,  8, "insufficient", FALSE,    0,   0),   \*  8  bare kings, Black to move
    Pos(BLACK,  9, "play",         FALSE, -300, -10),   \*  9  Black's only move mates
    Pos(WHITE, 10, "stalemate",    FALSE,    0,   0),   \* 10  White is stalemated
    Pos(WHITE, 11, "play",         FALSE, -650,   0),   \* 11  moves of equal value
    Pos(BLACK, 12, "play",         FALSE, -600,   0),   \* 12
    Pos(BLACK, 13, "play",         FALSE, -600,   0),   \* 13
    Pos(WHITE, 14, "insufficient", FALSE,    0,   0),   \* 14  bare kings
    Pos(BLACK, 15, "insufficient", FALSE,    0,   0),   \* 15
    Pos(WHITE, 16, "insufficient", FALSE,    0,   0) >> \* 16

Mv(from, to, piece, cap, promo, file, rank) ==
    [from |-> from, to |-> to, piece |-> piece, cap |-> cap, promo |-> promo,
     file |-> file, rank |-> rank]

BaseMoves == <<
    Mv( 1,  2, "K", "P", "",  3, 1),   \*  1  Kxd2, discovered checkmate
    Mv( 1,  3, "N", "",  "",  2, 2),   \*  2  quiet
    Mv( 1,  4, "Q", "",  "",  7, 4),   \*  3  check
    Mv( 3,  5, "Q", "",  "",  7, 1),   \*  4  checkmate
    Mv( 3,  6, "N", "",  "",  5, 5),   \*  5  quiet
    Mv( 4, 14, "K", "Q", "",  7, 4),   \*  6  the king takes the checking queen
    Mv( 4,  6, "K", "",  "",  5, 7),   \*  7  the king steps aside
    Mv( 6,  7, "R", "",  "",  0, 3),   \*  8  quiet
    Mv( 6, 13, "B", "N", "",  2, 5),   \*  9  capture
    Mv( 7,  1, "N", "",  "",  4, 4),   \* 10  quiet
    Mv( 7, 10, "P", "",  "Q", 4, 0),   \* 11  promotion that stalemates
    Mv( 9,  5, "R", "",  "",  0, 0),   \* 12  checkmate
    Mv(11, 12, "N", "",  "",  3, 3),   \* 13  quiet
    Mv(11, 13, "R", "",  "",  4, 4),   \* 14  quiet, the same ordering score as 13
    Mv(12,  6, "K", "",  "",  6, 6),   \* 15  quiet
    Mv(13,  6, "K", "",  "",  6, 6),   \* 16  quiet
    Mv( 8, 14, "K", "",  "",  1, 6),   \* 17
    Mv(14, 15, "K", "",  "",  1, 1),   \* 18
    Mv(15, 16, "K", "",  "",  2, 6),   \* 19
    Mv(16,  8, "K", "",  "",  2, 1),   \* 20
    Mv(11,  7, "P", "",  "",  0, 4) >> \* 21  quiet, scored below 13 and 14

\* The same position with the two sides swapped: the colours exchanged and
\* the board turned about its middle line.  The other side is to move, the
\* placement is another one, and every White-positive score changes sign.
SwapPos(r) ==
    [r EXCEPT !.turn = ~@, !.fen = @ + Len(BasePositions), !.raw = -@, !.prot = -@]

\* The same move in the swapped game: rank r becomes rank 7 - r.
SwapMove(r) ==
    [r EXCEPT !.from = @ + Len(BasePositions), !.to = @ + Len(BasePositions),
              !.rank = 7 - @]

\* The game holds every position and every move together with its swap.
PositionTable ==
    BasePositions \o [i \in 1..Len(BasePositions) |-> SwapPos(BasePositions[i])]
MoveTable == BaseMoves \o [i \in 1..Len(BaseMoves) |-> SwapMove(BaseMoves[i])]

\* p with the two sides swapped
Swapped(p) == IF p <= Len(BasePositions) THEN p + Len(BasePositions)
              ELSE p - Len(BasePositions)

Positions == 1..Len(PositionTable)
MoveIds == 1..Len(MoveTable)
Fens == {PositionTable[p].fen : p \in Positions}

\* board.turn
Turn(p) == PositionTable[p].turn
\* board.fen().split(' ')[0]: the piece placement only
Fen(p) == PositionTable[p].fen
\* board.is_checkmate()
IsCheckmate(p) == PositionTable[p].status = "checkmate"
\* board.is_check()
IsCheck(p) == PositionTable[p].check
\* board.is_stalemate() or board.is_insufficient_material()
IsDrawn(p) == PositionTable[p].status \in {"stalemate", "insufficient"}
\* board.is_game_over()
IsGameOver(p) == PositionTable[p].status # "play"

\* list(board.legal_moves), in the generator's order
LegalMoves(p) ==
    IF PositionTable[p].status \in {"checkmate", "stalemate"} THEN << >>
    ELSE SelectSeq([i \in MoveIds |-> i], LAMBDA m : MoveTable[m].from = p)

SeqToSet(s) == {s[i] : i \in 1..Len(s)}

(***************************************************************************)
(* The board object: the position it was set up with and the stack of      *)
(* moves pushed on it.                                                     *)
(***************************************************************************)
NewBoard(p) == [root |-> p, stack |-> << >>]
Cur(b) == IF b.stack = << >> THEN b.root ELSE MoveTable[b.stack[Len(b.stack)]].to
Push(b, m) == [b EXCEPT !.stack = Append(@, m)]
Pop(b) == [b EXCEPT !.stack = SubSeq(@, 1, Len(@) - 1)]

(***************************************************************************)
(* ChessEvaluator                                                          *)
(***************************************************************************)
\* The methods class ChessEvaluator defines.
ChessEvaluatorMethods ==
    {"__init__", "evaluate", "_is_endgame", "_evaluate_material_and_position",
     "_get_position_value", "_evaluate_king_safety", "_evaluate_pawn_shield",
     "_evaluate_king_attackers", "_evaluate_king_open_files", "_evaluate_mobility",
     "_evaluate_center_control", "_evaluate_piece_activity", "_evaluate_king_attack",
     "_is_attacking_king_zone", "_get_attack_weight", "_evaluate_piece_coordination",
     "_evaluate_bishop_pair", "_evaluate_rook_coordination", "_is_open_file",
     "_evaluate_piece_protection", "_evaluate_king_centralization",
     "_evaluate_passed_pawns", "_is_passed_pawn", "_evaluate_pawn_structure",
     "_evaluate_pawn_chains", "_evaluate_isolated_pawns", "_evaluate_doubled_pawns"}

\* The accumulated White-positive score of a position that is not over.
RawScore(p) == PositionTable[p].raw

\* evaluate(board)
Evaluate(p) ==
    IF IsCheckmate(p) THEN (IF Turn(p) THEN -Inf ELSE Inf)
    ELSE IF IsDrawn(p) THEN 0
    ELSE IF Turn(p) THEN RawScore(p) ELSE -RawScore(p)

\* _evaluate_piece_protection(board)
EvaluatePieceProtection(p) == PositionTable[p].prot

\* _evaluate_piece_defense(board): no method of this name is defined in the
\* source; where the evaluator object has it, it is the piece-protection
\* sub-score, as section 4.2 of the specification says.
EvaluatePieceDefense(p) == EvaluatePieceProtection(p)

(***************************************************************************)
(* ChessEngine.order_moves                                                 *)
(***************************************************************************)
\* board.piece_at(move.from_square) before the move is pushed
MovingPiece(m) == [type |-> MoveTable[m].piece, color |-> Turn(MoveTable[m].from)]

\* board.piece_at(move.to_square) once the move has been pushed: the piece
\* that moved, or the piece it promoted to
PieceAtTargetAfterPush(m) ==
    [type |-> IF MoveTable[m].promo # "" THEN MoveTable[m].promo ELSE MoveTable[m].piece,
     color |-> Turn(MoveTable[m].from)]

\* board.is_capture(move) asked once the move has been pushed: is the
\* destination square held by the side that is not to move
IsCaptureAfterPush(m) == PieceAtTargetAfterPush(m).color = ~Turn(MoveTable[m].to)

\* the opponent replies counted by the loop over opponent_moves
CheckerCaptures(m) ==
    LET replies == LegalMoves(MoveTable[m].to)
    IN  Cardinality({i \in 1..Len(replies) :
            /\ IsCaptureAfterPush(replies[i])
            /\ PieceAtTargetAfterPush(replies[i]) = MovingPiece(m)})

\* +10000 for checkmate, else the score of a checking move
MateOrCheckScore(m) ==
    LET after == MoveTable[m].to
    IN  IF IsCheckmate(after) THEN MateScore
        ELSE IF IsCheck(after)
             THEN CheckScore
                  + (IF Evaluate(after) > WinningThreshold THEN WinningCheckBonus ELSE 0)
                  - CheckerCapturedPenalty * CheckerCaptures(m)
             ELSE 0

\* MVV-LVA on the piece found on the destination square
CaptureScore(m) ==
    IF MoveTable[m].cap # ""
    THEN 10 * PIECE_VALUES[MoveTable[m].cap] - PIECE_VALUES[MoveTable[m].piece]
    ELSE 0

\* 800 for a promotion
PromotionBonus(m) == IF MoveTable[m].promo # "" THEN PromotionScore ELSE 0

\* center_distance * 10, with center_distance = |3.5 - file| + |3.5 - rank|
CenterDistance10(m) == 5 * (Abs(7 - 2 * MoveTable[m].file) + Abs(7 - 2 * MoveTable[m].rank))

\* a penalty given only while the placement is counted at least once
RepetitionScoreCounted(m, hist) ==
    LET after == MoveTable[m].to
    IN  IF Fen(after) \in DOMAIN hist /\ hist[Fen(after)] >= 1
           /\ Evaluate(after) > WinningThreshold
        THEN -RepetitionPenalty ELSE 0

\* -400 when the placement after the move is a key of position_history and
\* evaluate(board) of the position after the move exceeds 500
RepetitionScore(m, hist) ==
    LET after == MoveTable[m].to
    IN  IF Fen(after) \in DOMAIN hist /\ Evaluate(after) > WinningThreshold
        THEN -RepetitionPenalty ELSE 0

\* the score order_moves gives one move
MoveScore(m, hist) ==
    MateOrCheckScore(m) + CaptureScore(m) + PromotionBonus(m) - CenterDistance10(m)
    + RepetitionScore(m, hist) + EvaluatePieceDefense(MoveTable[m].to)

\* a descending sort that puts moves of equal score in reverse input order
SortByScoreTiesReversed(moves, hist) ==
    LET n == Len(moves)
        sc(i) == MoveScore(moves[i], hist)
        rank(i) == 1 + Cardinality({j \in 1..n : sc(j) > sc(i) \/ (sc(j) = sc(i) /\ j > i)})
    IN  [k \in 1..n |-> moves[CHOOSE i \in 1..n : rank(i) = k]]

\* move_scores.sort(key=score, reverse=True): descending, ties in input order
SortByScore(moves, hist) ==
    LET n == Len(moves)
        sc(i) == MoveScore(moves[i], hist)
        rank(i) == 1 + Cardinality({j \in 1..n : sc(j) > sc(i) \/ (sc(j) = sc(i) /\ j < i)})
    IN  [k \in 1..n |-> moves[CHOOSE i \in 1..n : rank(i) = k]]

\* self.evaluator._evaluate_piece_defense resolves on the evaluator object
HasPieceDefense(ev) == "_evaluate_piece_defense" \in ev

\* order_moves raises AttributeError while scoring its first candidate
OrderMovesRaises(moves, ev) == moves # << >> /\ ~HasPieceDefense(ev)

\* the list order_moves returns
OrderMoves(moves, hist) == SortByScore(moves, hist)

(***************************************************************************)
(* ChessEngine.alpha_beta: values it computes                              *)
(***************************************************************************)
\* eval_score *= 0.8
Times08(e) == IF e = Inf \/ e = -Inf THEN e ELSE (e * 8) \div 10

\* if pos_hash in self.position_history and abs(eval_score) > 500
Dampens(p, hist) == Fen(p) \in DOMAIN hist /\ Abs(Evaluate(p)) > WinningThreshold

\* the score returned at depth 0 or at a finished game
LeafScore(p, hist) ==
    LET e == Evaluate(p)
    IN  IF Fen(p) \in DOMAIN hist /\ Abs(e) > WinningThreshold THEN Times08(e) ELSE e

\* a loop that does not count the placement before it recurses
HistoryIncrementSkipped(hist, k) == hist

\* self.position_history[pos_hash] = self.position_history.get(pos_hash, 0) + 1
HistoryIncrement(hist, k) ==
    IF k \in DOMAIN hist THEN [hist EXCEPT ![k] = @ + 1] ELSE hist @@ (k :> 1)

\* a loop that leaves the count as it is when the recursive call has returned
HistoryDecrementSkipped(hist, k) == hist

\* self.position_history[pos_hash] -= 1
HistoryDecrement(hist, k) == [hist EXCEPT ![k] = @ - 1]

\* {}
EmptyHistory == [k \in {} |-> 0]

Max(a, b) == IF a > b THEN a ELSE b
Min(a, b) == IF a < b THEN a ELSE b

(***************************************************************************)
(* ChessEvaluator._evaluate_king_attack, on a board given square by        *)
(* square: a set of pieces, each with its type, colour, file and rank.     *)
(***************************************************************************)
Piece(type, color, f, r) == [type |-> type, color |-> color, f |-> f, r |-> r]

\* the files and ranks of the board are 0 .. 7
BoardSize == 8

\* board.piece_at(square) is a piece
Occupied(pos, f, r) == \E q \in pos : q.f = f /\ q.r = r

Sign(x) == IF x > 0 THEN 1 ELSE IF x < 0 THEN -1 ELSE 0

\* no piece stands strictly between the two squares of a line
ClearLine(pos, f1, r1, f2, r2) ==
    LET df == Sign(f2 - f1)
        dr == Sign(r2 - r1)
        n  == Max(Abs(f2 - f1), Abs(r2 - r1))
    IN  \A i \in 1..(n - 1) : ~Occupied(pos, f1 + i * df, r1 + i * dr)

\* piece q attacks the square (f, r), as the rules engine computes attacks:
\* a pinned piece attacks, a king attacks, the squares behind a piece on a
\* line are not attacked
PieceAttacks(pos, q, f, r) ==
    LET af == Abs(f - q.f)
        ar == Abs(r - q.r)
        straight == (af = 0) # (ar = 0)
        diagonal == af = ar /\ af # 0
    IN  CASE q.type = "P" -> af = 1 /\ r = q.r + (IF q.color = WHITE THEN 1 ELSE -1)
          [] q.type = "N" -> {af, ar} = {1, 2}
          [] q.type = "K" -> Max(af, ar) = 1
          [] q.type = "R" -> straight /\ ClearLine(pos, q.f, q.r, f, r)
          [] q.type = "B" -> diagonal /\ ClearLine(pos, q.f, q.r, f, r)
          [] q.type = "Q" -> (straight \/ diagonal) /\ ClearLine(pos, q.f, q.r, f, r)

\* board.is_attacked_by(color, square)
IsAttackedBy(pos, color, f, r) ==
    \E q \in pos : q.color = color /\ PieceAttacks(pos, q, f, r)

\* the squares the two loops of _is_attacking_king_zone go through
KingZone(king) ==
    {<<f, r>> : f \in Max(0, king.f - 1)..(Min(BoardSize, king.f + 2) - 1),
                r \in Max(0, king.r - 1)..(Min(BoardSize, king.r + 2) - 1)}

\* _is_attacking_king_zone(board, square, king_square), q the piece on square
IsAttackingKingZone(pos, q, king) ==
    \E t \in KingZone(king) : IsAttackedBy(pos, q.color, t[1], t[2])

\* _get_attack_weight(piece_type)
GetAttackWeight(type) ==
    CASE type = "P" -> 1
      [] type = "N" -> 3
      [] type = "B" -> 3
      [] type = "R" -> 5
      [] type = "Q" -> 9
      [] OTHER -> 0

\* board.king(color): the kings of that colour on the board
KingsOf(pos, color) == {q \in pos : q.type = "K" /\ q.color = color}

\* the pieces of a colour for which attacker_count and attack_value grow
CountedAttackers(pos, color) ==
    IF KingsOf(pos, ~color) = {} THEN {}
    ELSE LET king == CHOOSE k \in KingsOf(pos, ~color) : TRUE
         IN  {q \in pos : q.color = color /\ IsAttackingKingZone(pos, q, king)}

RECURSIVE SumOfWeights(_)
SumOfWeights(S) ==
    IF S = {} THEN 0
    ELSE LET q == CHOOSE x \in S : TRUE
         IN  GetAttackWeight(q.type) + SumOfWeights(S \ {q})

\* twice the attack_value of a colour, given the pieces counted for it: the
\* sum of their weights, multiplied by attacker_count * 1.5 when there is
\* more than one
AttackValue2(counted) ==
    IF Cardinality(counted) > 1
    THEN SumOfWeights(counted) * Cardinality(counted) * 3
    ELSE SumOfWeights(counted) * 2

\* twice the score _evaluate_king_attack returns
EvaluateKingAttack2(pos) ==
    AttackValue2(CountedAttackers(pos, WHITE)) - AttackValue2(CountedAttackers(pos, BLACK))

\* The boards the evaluator is given: the two kings, and up to MaxPieces of
\* the pieces below.
KingSetups ==
    {{Piece("K", WHITE, 6, 0), Piece("K", BLACK, 6, 7)},     \* Kg1, Kg8
     {Piece("K", WHITE, 6, 0), Piece("K", BLACK, 7, 7)}}     \* Kg1, Kh8

Placements ==
    {Piece("Q", WHITE, 7, 4),     \* Qh5, bears on h7 and f7
     Piece("B", WHITE, 3, 2),     \* Bd3, bears on h7 along an open diagonal
     Piece("R", WHITE, 0, 0),     \* Ra1
     Piece("N", WHITE, 1, 0),     \* Nb1
     Piece("P", WHITE, 0, 1),     \* a2
     Piece("Q", BLACK, 7, 3),     \* Qh4, bears on h2 and f2
     Piece("R", BLACK, 0, 7),     \* Ra8
     Piece("N", BLACK, 2, 5),     \* Nc6
     Piece("P", BLACK, 0, 6)}     \* a7

Boards ==
    {kings \cup others : kings \in KingSetups,
                         others \in {S \in SUBSET Placements : Cardinality(S) <= MaxPieces}}

\* _evaluate_king_attack has not been called
NotEvaluated == [done |-> FALSE, score2 |-> 0, counted |-> {}]

(***************************************************************************)
(* State                                                                   *)
(***************************************************************************)
VARIABLES
    depth,              \* self.depth
    time_limit,         \* self.time_limit
    evaluator,          \* self.evaluator: the attributes the evaluator object has
    start_time,         \* self.start_time
    position_history,   \* self.position_history
    now,                \* time.time()
    board,              \* the caller's board object
    pc,                 \* where get_best_move / iterative_deepening stands
    best_move,          \* iterative_deepening's best_move
    current_depth,      \* iterative_deepening's current_depth
    frames,             \* the alpha_beta calls in progress, the root call first
    ret,                \* the value an alpha_beta call has just returned
    exc,                \* the exception being propagated
    outcome,            \* how the last get_best_move call ended
    result,             \* what it returned
    board0,             \* the board as it was passed in
    cancelled,          \* a TimeoutError was raised during the call
    depths_run,         \* the depths alpha_beta was started with, in order
    recorded,           \* the move of the last depth that ran to completion
    partial,            \* the root frame's best_move when a TimeoutError left it
    completed,          \* how many depths ran to completion
    unwound,            \* how many frames the TimeoutError has passed through
    stale,              \* the dictionary held keys when the call began
    game_over,          \* ChessGUI.game_over
    gui_pc,             \* where ChessGUI.run stands ("off": no GUI, the engine alone)
    calls,              \* the direct alpha_beta calls made, with what they returned
    dampened,           \* a leaf of the current search had its score multiplied by 0.8
    pruned,             \* a loop of the current search broke with moves left
    placement,          \* the pieces on the board handed to _evaluate_king_attack
    king_attack         \* what _evaluate_king_attack returned and which pieces it counted

vars == <<depth, time_limit, evaluator, start_time, position_history, now, board, pc,
          best_move, current_depth, frames, ret, exc, outcome, result, board0,
          cancelled, depths_run, recorded, partial, completed, unwound, stale,
          game_over, gui_pc, calls, dampened, pruned, placement, king_attack>>

gui == <<game_over, gui_pc>>
probe == <<calls, dampened, pruned>>
config == <<depth, time_limit, evaluator>>
attack == <<placement, king_attack>>
ghosts == <<board0, cancelled, depths_run, recorded, partial, completed, unwound, stale>>

NoRet == [eval |-> 0, move |-> NoMove, set |-> FALSE]
Ret(e, m) == [eval |-> e, move |-> m, set |-> TRUE]

\* a fresh alpha_beta call
NewFrame(d, a, b, mx) ==
    [depth |-> d, alpha |-> a, beta |-> b, maximizing |-> mx, pc |-> "entry",
     ordered |-> << >>, idx |-> 1, best_eval |-> IF mx THEN -Inf ELSE Inf,
     best_move |-> NoMove, move |-> NoMove, pos_hash |-> 0, broke |-> FALSE]

Top == frames[Len(frames)]
PopFrame == SubSeq(frames, 1, Len(frames) - 1)
ReplaceTop(f) == [frames EXCEPT ![Len(frames)] = f]

\* is_time_up()
IsTimeUp == now - start_time > time_limit

\* an alpha_beta call is running and nothing is being returned or raised
Running == pc = "search" /\ frames # << >> /\ ~ret.set /\ exc = "none"

InitCommon ==
    /\ depth \in 0..MaxDepth
    /\ time_limit \in -1..MaxTimeLimit
    /\ start_time = 0
    /\ position_history = EmptyHistory
    /\ now = 0
    /\ board = NewBoard(1)
    /\ pc = "idle"
    /\ best_move = NoMove
    /\ current_depth = 1
    /\ frames = << >>
    /\ ret = NoRet
    /\ exc = "none"
    /\ outcome = "none"
    /\ result = NoMove
    /\ board0 = NewBoard(1)
    /\ cancelled = FALSE
    /\ depths_run = << >>
    /\ recorded = NoMove
    /\ partial = NoMove
    /\ completed = 0
    /\ unwound = 0
    /\ stale = FALSE
    /\ calls = << >>
    /\ dampened = FALSE
    /\ pruned = FALSE

\* the engine used on its own, without the GUI
NoGui == game_over = FALSE /\ gui_pc = "off"

\* the king-attack evaluation is not looked at: the board of the two kings
EvaluatorIdle ==
    /\ placement = {Piece("K", WHITE, 6, 0), Piece("K", BLACK, 6, 7)}
    /\ king_attack = NotEvaluated

\* the engine as the source builds it: ChessEvaluator()
Init == InitCommon /\ evaluator = ChessEvaluatorMethods /\ NoGui /\ EvaluatorIdle

\* the engine with an evaluator that has _evaluate_piece_defense
InitDefense ==
    /\ InitCommon /\ evaluator = ChessEvaluatorMethods \cup {"_evaluate_piece_defense"}
    /\ NoGui /\ EvaluatorIdle

(***************************************************************************)
(* get_best_move and iterative_deepening                                   *)
(***************************************************************************)
\* a get_best_move that keeps the dictionary of the request before
ResetHistoryKept(h) == h

\* self.position_history = {}
ResetHistory(h) == EmptyHistory

\* get_best_move(board) up to the loop of iterative_deepening.  The clock is
\* read relative to the moment of the call.
GetBestMove(p) ==
    /\ pc = "idle"
    /\ now' = 0
    /\ start_time' = now'
    /\ position_history' = ResetHistory(position_history)
    /\ board' = NewBoard(p)
    /\ board0' = NewBoard(p)
    /\ best_move' = NoMove
    /\ current_depth' = 1
    /\ pc' = "while"
    /\ outcome' = "none"
    /\ result' = NoMove
    /\ cancelled' = FALSE
    /\ depths_run' = << >>
    /\ recorded' = NoMove
    /\ partial' = NoMove
    /\ completed' = 0
    /\ unwound' = 0
    /\ stale' = (position_history # EmptyHistory)
    /\ dampened' = FALSE
    /\ pruned' = FALSE
    /\ UNCHANGED <<config, attack, frames, ret, exc, calls>>

\* time passes; once the deadline has passed the clock is no longer followed
Tick ==
    /\ pc \in {"while", "search"}
    /\ ~IsTimeUp
    /\ now' = now + 1
    /\ UNCHANGED <<probe, gui, config, attack, start_time, position_history, board, pc, best_move,
                   current_depth, frames, ret, exc, outcome, result, ghosts>>

\* while current_depth <= self.depth and not self.is_time_up(): call alpha_beta
WhileEnter ==
    /\ pc = "while"
    /\ current_depth <= depth /\ ~IsTimeUp
    /\ frames' = <<NewFrame(current_depth, -Inf, Inf, TRUE)>>
    /\ pc' = "search"
    /\ depths_run' = Append(depths_run, current_depth)
    /\ UNCHANGED <<probe, gui, config, attack, start_time, position_history, now, board, best_move,
                   current_depth, ret, exc, outcome, result, board0, cancelled,
                   recorded, partial, completed, unwound, stale>>

\* the loop condition fails
WhileExit ==
    /\ pc = "while"
    /\ ~(current_depth <= depth /\ ~IsTimeUp)
    /\ pc' = "return"
    /\ UNCHANGED <<probe, gui, config, attack, start_time, position_history, now, board, best_move,
                   current_depth, frames, ret, exc, outcome, result, ghosts>>

\* if move: best_move = move
KeepBest(best, move) == IF move # NoMove THEN move ELSE best

\* current_depth += 1
NextDepth(d) == d + 1

\* the root alpha_beta call returned to iterative_deepening
RootReturn ==
    /\ pc = "search" /\ frames = << >> /\ ret.set /\ exc = "none"
    /\ best_move' = KeepBest(best_move, ret.move)
    /\ recorded' = IF ret.move # NoMove THEN ret.move ELSE recorded
    /\ completed' = completed + 1
    /\ current_depth' = NextDepth(current_depth)
    /\ ret' = NoRet
    /\ pc' = "while"
    /\ UNCHANGED <<probe, gui, config, attack, start_time, position_history, now, board, frames, exc,
                   outcome, result, board0, cancelled, depths_run, partial, unwound,
                   stale>>

\* an except clause that takes over what the interrupted depth had found
AfterTimeoutPartial(best, part) == IF part # NoMove THEN part ELSE best

\* except TimeoutError: pass
AfterTimeout(best, part) == best

\* the TimeoutError reaches iterative_deepening
TimeoutCaught ==
    /\ pc = "search" /\ frames = << >> /\ exc = "TimeoutError"
    /\ exc' = "none"
    /\ best_move' = AfterTimeout(best_move, partial)
    /\ pc' = "return"
    /\ UNCHANGED <<probe, gui, config, attack, start_time, position_history, now, board, current_depth,
                   frames, ret, outcome, result, ghosts>>

\* return best_move
ReturnBestMove ==
    /\ pc = "return"
    /\ outcome' = "returned"
    /\ result' = best_move
    /\ pc' = "idle"
    /\ UNCHANGED <<probe, gui, config, attack, start_time, position_history, now, board, best_move,
                   current_depth, frames, ret, exc, ghosts>>

\* an AttributeError is caught nowhere: it leaves every frame and get_best_move
AttributeErrorEscapes ==
    /\ exc = "AttributeError"
    /\ frames' = << >>
    /\ exc' = "none"
    /\ outcome' = "raised"
    /\ pc' = "idle"
    /\ UNCHANGED <<probe, gui, config, attack, start_time, position_history, now, board, best_move,
                   current_depth, ret, result, ghosts>>

(***************************************************************************)
(* alpha_beta                                                              *)
(***************************************************************************)
\* if self.is_time_up(): raise TimeoutError
AlphaBetaTimeout ==
    /\ Running /\ Top.pc = "entry"
    /\ IsTimeUp
    /\ exc' = "TimeoutError"
    /\ cancelled' = TRUE
    /\ frames' = PopFrame
    /\ UNCHANGED <<probe, gui, config, attack, start_time, position_history, now, board, pc, best_move,
                   current_depth, ret, outcome, result, board0, depths_run, recorded,
                   partial, completed, unwound, stale>>

\* if depth == 0 or board.is_game_over(): return eval_score, None
AlphaBetaLeaf ==
    /\ Running /\ Top.pc = "entry"
    /\ ~IsTimeUp
    /\ Top.depth = 0 \/ IsGameOver(Cur(board))
    /\ ret' = Ret(LeafScore(Cur(board), position_history), NoMove)
    /\ dampened' = (dampened \/ Dampens(Cur(board), position_history))
    /\ frames' = PopFrame
    /\ UNCHANGED <<calls, pruned, gui, config, attack, start_time, position_history, now, board, pc, best_move,
                   current_depth, exc, outcome, result, ghosts>>

\* moves = list(board.legal_moves); ordered_moves = self.order_moves(board, moves)
AlphaBetaOrder ==
    /\ Running /\ Top.pc = "entry"
    /\ ~IsTimeUp
    /\ ~(Top.depth = 0 \/ IsGameOver(Cur(board)))
    /\ ~OrderMovesRaises(LegalMoves(Cur(board)), evaluator)
    /\ frames' = ReplaceTop([Top EXCEPT
                    !.pc = "loop",
                    !.ordered = OrderMoves(LegalMoves(Cur(board)), position_history)])
    /\ UNCHANGED <<probe, gui, config, attack, start_time, position_history, now, board, pc, best_move,
                   current_depth, ret, exc, outcome, result, ghosts>>

\* order_moves pushes its first candidate for the defense score and the call
\* of _evaluate_piece_defense raises AttributeError before board.pop()
AlphaBetaOrderRaises ==
    /\ Running /\ Top.pc = "entry"
    /\ ~IsTimeUp
    /\ ~(Top.depth = 0 \/ IsGameOver(Cur(board)))
    /\ OrderMovesRaises(LegalMoves(Cur(board)), evaluator)
    /\ board' = Push(board, LegalMoves(Cur(board))[1])
    /\ exc' = "AttributeError"
    /\ UNCHANGED <<probe, gui, config, attack, start_time, position_history, now, pc, best_move,
                   current_depth, frames, ret, outcome, result, ghosts>>

\* for move in ordered_moves: board.push(move); count the placement; recurse
LoopPush ==
    /\ Running /\ Top.pc = "loop"
    /\ ~Top.broke /\ Top.idx <= Len(Top.ordered)
    /\ LET m == Top.ordered[Top.idx]
           k == Fen(MoveTable[m].to)
       IN  /\ board' = Push(board, m)
           /\ position_history' = HistoryIncrement(position_history, k)
           /\ frames' = Append(ReplaceTop([Top EXCEPT !.pc = "call", !.move = m,
                                                      !.pos_hash = k]),
                               NewFrame(Top.depth - 1, Top.alpha, Top.beta,
                                        ~Top.maximizing))
    /\ UNCHANGED <<probe, gui, config, attack, start_time, now, pc, best_move, current_depth, ret, exc,
                   outcome, result, ghosts>>

\* a loop that keeps the move of the recursive call's result when it has one,
\* instead of dropping it: the last move of the best line, not the first
ChosenMoveOfChild(move, childMove) == IF childMove # NoMove THEN childMove ELSE move

\* best_move = move
ChosenMove(move, childMove) == move

\* the test with its operands exchanged
CutoffOperandsSwapped(alpha, beta) == alpha <= beta

\* if beta <= alpha: break
Cutoff(alpha, beta) == beta <= alpha

\* the frame after the recursive call returned eval: the best value and move,
\* the window, and whether the loop breaks
Absorb(f, eval, childMove) ==
    IF f.maximizing
    THEN LET a == Max(f.alpha, eval)
         IN  [f EXCEPT !.best_eval = IF eval > f.best_eval THEN eval ELSE @,
                       !.best_move = IF eval > f.best_eval
                                     THEN ChosenMove(f.move, childMove) ELSE @,
                       !.alpha = a,
                       !.broke = Cutoff(a, f.beta),
                       !.idx = @ + 1,
                       !.pc = "loop"]
    ELSE LET b == Min(f.beta, eval)
         IN  [f EXCEPT !.best_eval = IF eval < f.best_eval THEN eval ELSE @,
                       !.best_move = IF eval < f.best_eval
                                     THEN ChosenMove(f.move, childMove) ELSE @,
                       !.beta = b,
                       !.broke = Cutoff(f.alpha, b),
                       !.idx = @ + 1,
                       !.pc = "loop"]

\* the recursive call returned: uncount the placement, board.pop(), compare
LoopReceive ==
    /\ pc = "search" /\ frames # << >> /\ ret.set /\ exc = "none"
    /\ Top.pc = "call"
    /\ position_history' = HistoryDecrement(position_history, Top.pos_hash)
    /\ board' = Pop(board)
    /\ frames' = ReplaceTop(Absorb(Top, ret.eval, ret.move))
    /\ ret' = NoRet
    /\ UNCHANGED <<probe, gui, config, attack, start_time, now, pc, best_move, current_depth, exc,
                   outcome, result, ghosts>>

\* the loop ended or broke: return max_eval (min_eval), best_move
LoopReturn ==
    /\ Running /\ Top.pc = "loop"
    /\ Top.broke \/ Top.idx > Len(Top.ordered)
    /\ ret' = Ret(Top.best_eval, Top.best_move)
    /\ pruned' = (pruned \/ Top.idx <= Len(Top.ordered))
    /\ frames' = PopFrame
    /\ UNCHANGED <<calls, dampened, gui, config, attack, start_time, position_history, now, board, pc, best_move,
                   current_depth, exc, outcome, result, ghosts>>

\* an except clause that re-raises without board.pop()
UnwindBoardNoPop(b) == b

\* except TimeoutError: board.pop()
UnwindBoard(b) == Pop(b)

\* except TimeoutError: position_history is not touched
UnwindHistory(h, k) == h

\* except TimeoutError: board.pop(); raise
TimeoutUnwind ==
    /\ pc = "search" /\ frames # << >> /\ exc = "TimeoutError"
    /\ board' = UnwindBoard(board)
    /\ position_history' = UnwindHistory(position_history, Top.pos_hash)
    /\ partial' = IF Len(frames) = 1 THEN Top.best_move ELSE partial
    /\ unwound' = unwound + 1
    /\ frames' = PopFrame
    /\ UNCHANGED <<probe, gui, config, attack, start_time, now, pc, best_move, current_depth, ret, exc,
                   outcome, result, board0, cancelled, depths_run, recorded, completed,
                   stale>>

(***************************************************************************)
(* alpha_beta called by itself with the full window, first maximizing on a *)
(* position, then minimizing on the same position with the sides swapped,  *)
(* each time to the engine's depth, on an engine whose clock and           *)
(* dictionary have just been reset as get_best_move resets them.  The      *)
(* clock is read as it stood at the call: a call either finds its time up  *)
(* on entry or runs to its end.                                            *)
(***************************************************************************)
\* the record of a call that has not returned yet
Pending(p, d, mx) ==
    [p |-> p, depth |-> d, maximizing |-> mx, done |-> FALSE, eval |-> 0,
     move |-> NoMove, dampened |-> FALSE, pruned |-> FALSE]

\* self.start_time = time.time(); self.position_history = {};
\* self.alpha_beta(board, d, float('-inf'), float('inf'), mx)
StartCall(p, d, mx) ==
    /\ pc = "idle"
    /\ now' = 0
    /\ start_time' = now'
    /\ position_history' = ResetHistory(position_history)
    /\ board' = NewBoard(p)
    /\ board0' = NewBoard(p)
    /\ frames' = <<NewFrame(d, -Inf, Inf, mx)>>
    /\ pc' = "search"
    /\ ret' = NoRet
    /\ outcome' = "none"
    /\ cancelled' = FALSE
    /\ unwound' = 0
    /\ dampened' = FALSE
    /\ pruned' = FALSE
    /\ UNCHANGED <<gui, config, attack, best_move, current_depth, exc, result, depths_run,
                   recorded, partial, completed, stale>>

\* alpha_beta(board, d, -inf, +inf, True) on position p
CallMaximizing(p, d) ==
    /\ Len(calls) # 1
    /\ StartCall(p, d, TRUE)
    /\ calls' = <<Pending(p, d, TRUE)>>

\* alpha_beta(board', d, -inf, +inf, False) on the position just searched
\* with the sides swapped
CallSwappedMinimizing ==
    /\ Len(calls) = 1
    /\ StartCall(Swapped(calls[1].p), calls[1].depth, FALSE)
    /\ calls' = Append(calls, Pending(Swapped(calls[1].p), calls[1].depth, FALSE))

\* the call returned eval_score (max_eval, min_eval) and a move to its caller
AlphaBetaReturned ==
    /\ pc = "search" /\ frames = << >> /\ ret.set /\ exc = "none"
    /\ calls' = [calls EXCEPT ![Len(calls)] =
                    [@ EXCEPT !.done = TRUE, !.eval = ret.eval, !.move = ret.move,
                              !.dampened = dampened, !.pruned = pruned]]
    /\ ret' = NoRet
    /\ pc' = "idle"
    /\ UNCHANGED <<dampened, pruned, gui, config, attack, start_time, position_history, now, board,
                   best_move, current_depth, frames, exc, outcome, result, ghosts>>

\* the call raised TimeoutError to its caller
AlphaBetaRaised ==
    /\ pc = "search" /\ frames = << >> /\ exc = "TimeoutError"
    /\ exc' = "none"
    /\ pc' = "idle"
    /\ UNCHANGED <<probe, gui, config, attack, start_time, position_history, now, board,
                   best_move, current_depth, frames, ret, outcome, result, ghosts>>

(***************************************************************************)
(* ChessGUI in game mode "AI" (src/chess_gui.py): the human plays White,   *)
(* the engine Black, on the one board object the GUI hands to the engine.  *)
(***************************************************************************)
\* the game-state tests of make_move once the move is on the board
EndsGame(p) == IsCheckmate(p) \/ IsDrawn(p)

\* ChessGUI.__init__: a new board, game_over False, the engine built from
\* the depth and time limit it is given
InitGUI ==
    /\ InitCommon
    /\ evaluator = ChessEvaluatorMethods
    /\ game_over = FALSE
    /\ gui_pc = "loop"
    /\ EvaluatorIdle

\* a click of the human completes a legal move of White: make_move(move)
GuiHumanMove(m) ==
    /\ gui_pc = "loop" /\ ~game_over
    /\ Turn(Cur(board)) = WHITE
    /\ m \in SeqToSet(LegalMoves(Cur(board)))
    /\ board' = Push(board, m)
    /\ game_over' = EndsGame(MoveTable[m].to)
    /\ UNCHANGED <<probe, gui_pc, config, attack, start_time, position_history, now, pc, best_move,
                   current_depth, frames, ret, exc, outcome, result, ghosts>>

\* pygame.QUIT: running = False
GuiQuit ==
    /\ gui_pc = "loop"
    /\ gui_pc' = "quit"
    /\ UNCHANGED <<probe, game_over, config, attack, start_time, position_history, now, board, pc,
                   best_move, current_depth, frames, ret, exc, outcome, result, ghosts>>

\* a pass of the main loop with the game open and Black to move:
\* make_ai_move calls self.engine.get_best_move(self.board)
GuiMakeAiMove ==
    /\ gui_pc = "loop" /\ ~game_over
    /\ Turn(Cur(board)) = BLACK
    /\ GetBestMove(Cur(board))
    /\ gui_pc' = "make_ai_move"
    /\ UNCHANGED game_over

\* get_best_move returned: if move: self.make_move(move); back to the loop
GuiAiMoveReturned ==
    /\ gui_pc = "make_ai_move" /\ pc = "idle" /\ outcome = "returned"
    /\ IF result # NoMove
       THEN board' = Push(board, result) /\ game_over' = EndsGame(MoveTable[result].to)
       ELSE UNCHANGED <<board, game_over>>
    /\ gui_pc' = "loop"
    /\ UNCHANGED <<probe, config, attack, start_time, position_history, now, pc, best_move,
                   current_depth, frames, ret, exc, outcome, result, ghosts>>

\* get_best_move raised: nothing in make_ai_move or run catches it
GuiAiMoveRaised ==
    /\ gui_pc = "make_ai_move" /\ pc = "idle" /\ outcome = "raised"
    /\ gui_pc' = "crashed"
    /\ UNCHANGED <<probe, game_over, config, attack, start_time, position_history, now, board, pc,
                   best_move, current_depth, frames, ret, exc, outcome, result, ghosts>>

(***************************************************************************)
(* The evaluator of an engine, asked for the king-attack score of a board  *)
(***************************************************************************)
\* any engine as the source builds it, its evaluator given one of the boards
InitKingAttack ==
    /\ InitCommon /\ evaluator = ChessEvaluatorMethods /\ NoGui
    /\ placement \in Boards
    /\ king_attack = NotEvaluated

\* self._evaluate_king_attack(board)
EvaluateKingAttack ==
    /\ ~king_attack.done
    /\ king_attack' =
          [done |-> TRUE,
           score2 |-> EvaluateKingAttack2(placement),
           counted |-> CountedAttackers(placement, WHITE)
                       \cup CountedAttackers(placement, BLACK)]
    /\ UNCHANGED <<probe, gui, config, placement, start_time, position_history, now, board,
                   pc, best_move, current_depth, frames, ret, exc, outcome, result, ghosts>>

(***************************************************************************)
(* Specifications                                                          *)
(***************************************************************************)
\* The program as the source has it.  order_moves raises on its first
\* candidate, so no alpha_beta call gets past it.
Next ==
    \/ \E p \in Positions : GetBestMove(p) /\ UNCHANGED gui
    \/ Tick
    \/ WhileEnter
    \/ WhileExit
    \/ AlphaBetaTimeout
    \/ AlphaBetaLeaf
    \/ AlphaBetaOrderRaises
    \/ AttributeErrorEscapes
    \/ RootReturn
    \/ TimeoutCaught
    \/ ReturnBestMove

Spec == Init /\ [][Next]_vars

\* The program with _evaluate_piece_defense resolved.
NextDefense ==
    \/ \E p \in Positions : GetBestMove(p) /\ UNCHANGED gui
    \/ Tick
    \/ WhileEnter
    \/ WhileExit
    \/ AlphaBetaTimeout
    \/ AlphaBetaLeaf
    \/ AlphaBetaOrder
    \/ LoopPush
    \/ LoopReceive
    \/ LoopReturn
    \/ TimeoutUnwind
    \/ RootReturn
    \/ TimeoutCaught
    \/ ReturnBestMove

SpecDefense == InitDefense /\ [][NextDefense]_vars

\* alpha_beta called by itself, the engine as the source has it.
NextCall ==
    \/ \E p \in Positions : CallMaximizing(p, depth)
    \/ CallSwappedMinimizing
    \/ AlphaBetaTimeout
    \/ AlphaBetaLeaf
    \/ AlphaBetaOrderRaises
    \/ AttributeErrorEscapes
    \/ AlphaBetaReturned
    \/ AlphaBetaRaised

SpecCall == Init /\ [][NextCall]_vars

\* alpha_beta called by itself, with _evaluate_piece_defense resolved.
NextCallDefense ==
    \/ \E p \in Positions : CallMaximizing(p, depth)
    \/ CallSwappedMinimizing
    \/ AlphaBetaTimeout
    \/ AlphaBetaLeaf
    \/ AlphaBetaOrder
    \/ LoopPush
    \/ LoopReceive
    \/ LoopReturn
    \/ AlphaBetaReturned
    \/ AlphaBetaRaised

SpecCallDefense == InitDefense /\ [][NextCallDefense]_vars

\* What the GUI and the engine do by themselves: every step but the human's
\* click, the closing of the window and the passing of time.
ProgramGUI ==
    \/ GuiMakeAiMove
    \/ GuiAiMoveReturned
    \/ GuiAiMoveRaised
    \/ WhileEnter
    \/ WhileExit
    \/ AlphaBetaTimeout
    \/ AlphaBetaOrderRaises
    \/ AttributeErrorEscapes
    \/ TimeoutCaught
    \/ ReturnBestMove

\* The GUI in mode "AI" with the engine as the source has it.  The engine is
\* only asked about positions the game reaches with Black to move, where
\* the game is not over, so its root call never ends at the terminal test.
NextGUI ==
    \/ \E m \in MoveIds : GuiHumanMove(m)
    \/ GuiQuit
    \/ Tick
    \/ ProgramGUI

SpecGUI == InitGUI /\ [][NextGUI]_vars

\* The main loop keeps running and the engine keeps computing.
FairSpecGUI == SpecGUI /\ WF_vars(ProgramGUI)

\* The evaluator alone.
NextKingAttack == EvaluateKingAttack

SpecKingAttack == InitKingAttack /\ [][NextKingAttack]_vars

(***************************************************************************)
(* Properties                                                              *)
(***************************************************************************)
Returned == pc = "idle" /\ outcome = "returned"
RootMoves == SeqToSet(LegalMoves(board0.root))
MatingMoves(p) == {m \in SeqToSet(LegalMoves(p)) : IsCheckmate(MoveTable[m].to)}

\* C1: a move returned by get_best_move is one of the legal moves of the
\* position the call was given, whether or not the search was cut.
C1_ReturnedMoveIsLegal ==
    (Returned /\ result # NoMove) => result \in RootMoves

\* a move was returned by a call that the deadline cut
C1_Witness == Returned /\ result # NoMove /\ cancelled

\* C2: when get_best_move has returned, every count of position_history is
\* what it was when the search started, that is zero.
C2_CountsRestored ==
    Returned => \A k \in DOMAIN position_history : position_history[k] = 0

\* C3: when get_best_move returns, the board is as it was passed in.
C3_BoardRestored == Returned => board = board0

\* the call returned after a TimeoutError went through two frames
C3_Witness == Returned /\ cancelled /\ unwound >= 2

\* C4: once a TimeoutError has been raised the call does not fail, the search
\* only unwinds, no further depth is started, and the move returned is the
\* one recorded by the last depth that ran to completion.
C4_TimeoutConsumed ==
    cancelled =>
        /\ outcome # "raised"
        /\ pc # "while"
        /\ pc = "search" => exc = "TimeoutError"
        /\ Len(depths_run) = completed + 1
        /\ Returned => result = recorded

\* a depth was cut after it had found a move other than the one recorded by
\* the depth before, and the recorded one was returned
C4_Witness ==
    /\ Returned /\ cancelled
    /\ recorded # NoMove /\ partial # NoMove /\ partial # recorded

\* C5: with a mating move available to the side to move, White or Black, and
\* depth 1 completed, get_best_move returns a mating move.
C5_MateInOneReturned ==
    (Returned /\ completed >= 1 /\ MatingMoves(board0.root) # {})
        => result \in MatingMoves(board0.root)

\* C6: with a legal move available and depth 1 completed without
\* cancellation, a move is returned.  (Stated for positions that are not
\* over: at a finished game alpha_beta returns no move by its terminal rule.)
C6_MoveReturned ==
    (Returned /\ ~cancelled /\ completed >= 1 /\ ~IsGameOver(board0.root)
        /\ RootMoves # {})
        => result # NoMove

\* C7: get_best_move never fails with an error: order_moves runs to
\* completion, no AttributeError is raised.
C7_NoError == exc # "AttributeError" /\ outcome # "raised"

\* C8: in the list order_moves returns, no move that does not mate stands
\* before a move that mates.
C8_MateFirst ==
    \A n \in 1..Len(frames) :
        frames[n].pc # "entry" =>
            \A i, j \in 1..Len(frames[n].ordered) :
                (i < j /\ IsCheckmate(MoveTable[frames[n].ordered[j]].to))
                    => IsCheckmate(MoveTable[frames[n].ordered[i]].to)

\* The search of one request run without interruption, as a function of the
\* position and the depth ceiling alone: alpha_beta on a position with the
\* dictionary h, returning the value, the move and the dictionary it leaves.
RECURSIVE RefAlphaBeta(_, _, _, _, _, _), RefLoop(_, _, _)
RefAlphaBeta(p, d, a, b, mx, h) ==
    IF d = 0 \/ IsGameOver(p)
    THEN [eval |-> LeafScore(p, h), move |-> NoMove, hist |-> h]
    ELSE RefLoop(p, [NewFrame(d, a, b, mx) EXCEPT !.ordered = OrderMoves(LegalMoves(p), h)], h)

RefLoop(p, f, h) ==
    IF f.broke \/ f.idx > Len(f.ordered)
    THEN [eval |-> f.best_eval, move |-> f.best_move, hist |-> h]
    ELSE LET m == f.ordered[f.idx]
             k == Fen(MoveTable[m].to)
             r == RefAlphaBeta(MoveTable[m].to, f.depth - 1, f.alpha, f.beta,
                               ~f.maximizing, HistoryIncrement(h, k))
         IN  RefLoop(p, Absorb([f EXCEPT !.move = m], r.eval, r.move),
                     HistoryDecrement(r.hist, k))

\* iterative_deepening from depth d to the ceiling, never out of time
RECURSIVE RefDeepen(_, _, _, _, _)
RefDeepen(p, d, ceiling, best, h) ==
    IF d > ceiling THEN best
    ELSE LET r == RefAlphaBeta(p, d, -Inf, Inf, TRUE, h)
         IN  RefDeepen(p, d + 1, ceiling, IF r.move # NoMove THEN r.move ELSE best, r.hist)

\* C9: when the depth ceiling is reached without cancellation, the move
\* returned is a function of the position and the ceiling: it is the move of
\* the uninterrupted search started on an empty dictionary, whatever the time
\* budget, the passing of time and the requests served before.
C9_ResultDependsOnPositionAndDepth ==
    (Returned /\ ~cancelled /\ depth >= 1 /\ completed = depth)
        => result = RefDeepen(board0.root, 1, depth, NoMove, EmptyHistory)

\* a full search returned a move, on an engine whose dictionary still held
\* the keys of an earlier request when the call began, with time having passed
C9_Witness ==
    /\ Returned /\ ~cancelled /\ depth >= 1 /\ completed = depth
    /\ stale /\ now > 0 /\ result # NoMove

\* C10: every call of get_best_move ends by returning (a move or none).
C10_CallReturns == [][(pc # "idle" /\ pc' = "idle") => outcome' = "returned"]_vars

\* C11: with a depth ceiling or a time budget that is not positive (zero
\* included), no alpha_beta call is started and get_best_move returns no move.
C11_NoSearchWithoutBudget ==
    (depth <= 0 \/ time_limit <= 0) =>
        /\ depths_run = << >>
        /\ frames = << >>
        /\ outcome # "raised"
        /\ Returned => result = NoMove

\* get_best_move has just returned no move to make_ai_move
NoMoveOnAiTurn ==
    gui_pc = "make_ai_move" /\ pc = "idle" /\ outcome = "returned" /\ result = NoMove

\* C12: when the engine returns no move on the AI's turn, the main loop
\* eventually sets game_over (or has been closed): it does not go on asking.
C12_NoMoveEndsGame == NoMoveOnAiTurn ~> (game_over \/ gui_pc = "quit")

\* the maximizing call on a position and the minimizing call on its swap have
\* both returned
PairReturned == pc = "idle" /\ Len(calls) = 2 /\ calls[1].done /\ calls[2].done

\* C13: when neither call multiplied a leaf score by 0.8, the score of
\* alpha_beta(p, d, -inf, +inf, True) is the negative of the score of
\* alpha_beta(p', d, -inf, +inf, False), p' being p with the sides swapped.
C13_SwapNegates ==
    (PairReturned /\ ~calls[1].dampened /\ ~calls[2].dampened)
        => calls[1].eval = -calls[2].eval

\* how often m occurs in the list
Occurrences(list, m) == Cardinality({i \in 1..Len(list) : list[i] = m})

\* out holds the moves of input, each as often as input does, by
\* non-increasing score, moves of equal score in the order input has them
IsStableDescending(input, out, hist) ==
    /\ Len(out) = Len(input)
    /\ \A m \in MoveIds : Occurrences(out, m) = Occurrences(input, m)
    /\ \A i, j \in 1..Len(out) :
          i < j =>
            /\ MoveScore(out[i], hist) >= MoveScore(out[j], hist)
            /\ MoveScore(out[i], hist) = MoveScore(out[j], hist)
                  => \E a, b \in 1..Len(input) :
                        a < b /\ input[a] = out[i] /\ input[b] = out[j]

\* C14: the list order_moves returns is a permutation of the list it was
\* given, sorted by non-increasing score, ties kept in input order.
C14_OrderIsStablePermutation ==
    [][(Running /\ Top.pc = "entry" /\ Len(frames') = Len(frames)
            /\ frames'[Len(frames')].pc = "loop")
        => IsStableDescending(LegalMoves(Cur(board)), frames'[Len(frames')].ordered,
                              position_history)]_vars

\* order_moves has just returned a list in which two moves have the same
\* score and the first legal move is no longer first
C14_Witness ==
    /\ Running /\ Top.pc = "loop" /\ Top.idx = 1
    /\ \E i, j \in 1..Len(Top.ordered) :
          i < j /\ MoveScore(Top.ordered[i], position_history)
                    = MoveScore(Top.ordered[j], position_history)
    /\ Top.ordered[1] # LegalMoves(Cur(board))[1]

\* C15: for a position whose side to move is checkmated, White or Black,
\* evaluate returns the losing sentinel, minus infinity (alpha_beta hands the
\* value of evaluate back unchanged at a finished game).
C15_CheckmatedMoverLoses ==
    \A n \in 1..Len(calls) :
        (calls[n].done /\ IsCheckmate(calls[n].p)) => calls[n].eval = -Inf

\* the greatest element of a set of scores
SetMax(S) == CHOOSE x \in S : \A y \in S : y <= x
\* the least
SetMin(S) == CHOOSE x \in S : \A y \in S : x <= y

\* The value of a position d plies deep for the side to move in it, over the
\* scores evaluate gives the leaves: what is good for the side to move in a
\* position is as bad for the side that moved into it.
RECURSIVE MoverValue(_, _)
MoverValue(p, d) ==
    IF d = 0 \/ IsGameOver(p) THEN Evaluate(p)
    ELSE SetMax({-MoverValue(MoveTable[m].to, d - 1) : m \in SeqToSet(LegalMoves(p))})

\* C16: the score a maximizing alpha_beta call returns is the value of its
\* position for the side to move there, at every depth, odd or even (stated
\* for calls in which no leaf score was multiplied by 0.8).
C16_ScoreIsMoverRelative ==
    (Len(calls) >= 1 /\ calls[1].done /\ ~calls[1].dampened)
        => calls[1].eval = MoverValue(calls[1].p, calls[1].depth)

\* The search without the break: every move of every node is searched, in
\* the order of order_moves and with the same counting of placements, and a
\* node returns the greatest (maximizing) or least (minimizing) of the scores
\* of its moves.  Returns the score and the dictionary it leaves.
RECURSIVE Exhaustive(_, _, _, _), ExhaustiveLoop(_, _, _, _, _, _)
Exhaustive(p, d, mx, h) ==
    IF d = 0 \/ IsGameOver(p)
    THEN [eval |-> LeafScore(p, h), hist |-> h]
    ELSE ExhaustiveLoop(OrderMoves(LegalMoves(p), h), 1, d, mx, IF mx THEN -Inf ELSE Inf, h)

ExhaustiveLoop(ordered, i, d, mx, best, h) ==
    IF i > Len(ordered) THEN [eval |-> best, hist |-> h]
    ELSE LET k == Fen(MoveTable[ordered[i]].to)
             r == Exhaustive(MoveTable[ordered[i]].to, d - 1, ~mx, HistoryIncrement(h, k))
         IN  ExhaustiveLoop(ordered, i + 1, d, mx,
                            IF mx THEN Max(best, r.eval) ELSE Min(best, r.eval),
                            HistoryDecrement(r.hist, k))

\* C17: a call of alpha_beta with the window (-inf, +inf) that is not
\* cancelled returns the score of the search without the break.
C17_PruningKeepsScore ==
    \A n \in 1..Len(calls) :
        calls[n].done =>
            calls[n].eval = Exhaustive(calls[n].p, calls[n].depth, calls[n].maximizing,
                                       EmptyHistory).eval

\* a maximizing and a minimizing call have returned that both broke a loop
\* with moves left to search, below the root: neither score is a sentinel
C17_Witness ==
    /\ PairReturned /\ calls[1].pruned /\ calls[2].pruned
    /\ Abs(calls[1].eval) # Inf /\ Abs(calls[2].eval) # Inf

\* the placements the search path went through before the position it is at
PathPlacements(b) ==
    {Fen(b.root)} \cup {Fen(MoveTable[b.stack[i]].to) : i \in 1..(Len(b.stack) - 1)}

\* C18: when alpha_beta returns at a leaf that was reached by at least one
\* move, the placement of the leaf is a key of position_history with a count
\* of at least 1, and a leaf whose evaluation exceeds 500 in magnitude
\* returns the evaluation multiplied by 0.8.
C18_LeafBelowRootIsDampened ==
    [][(Running /\ Len(frames) >= 2 /\ Top.pc = "entry" /\ ret'.set)
        => /\ Fen(Cur(board)) \in DOMAIN position_history
           /\ position_history[Fen(Cur(board))] >= 1
           /\ Abs(Evaluate(Cur(board))) > WinningThreshold
                 => ret'.eval = Times08(Evaluate(Cur(board)))]_vars

\* a leaf has just returned a score reduced by the factor 0.8 although its
\* placement is counted once only and is nowhere else on the search path
C18_Witness ==
    /\ pc = "search" /\ ret.set /\ exc = "none" /\ frames # << >> /\ Top.pc = "call"
    /\ Top.depth = 1 \/ IsGameOver(Cur(board))
    /\ Abs(Evaluate(Cur(board))) > WinningThreshold
    /\ ret.eval = Times08(Evaluate(Cur(board)))
    /\ ret.eval # Evaluate(Cur(board))
    /\ position_history[Fen(Cur(board))] = 1
    /\ Fen(Cur(board)) \notin PathPlacements(board)

\* order_moves returns to the alpha_beta call at the top of the stack
OrderStep ==
    /\ Running /\ Top.pc = "entry"
    /\ Len(frames') = Len(frames) /\ frames'[Len(frames')].pc = "loop"

\* move m leads to a placement that is a key of position_history with count
\* 0 and lies nowhere on the search path, in a position evaluated above 500
VisitedOffPath(m) ==
    LET k == Fen(MoveTable[m].to)
    IN  /\ k \in DOMAIN position_history /\ position_history[k] = 0
        /\ k \notin PathPlacements(board) \cup {Fen(Cur(board))}
        /\ Evaluate(MoveTable[m].to) > WinningThreshold

\* C19: within a request no key leaves position_history, whatever its count,
\* from one depth to the next as well; and order_moves scores every move to
\* a placement that is a key (in a position evaluated above 500) 400 lower
\* than it scores the move on an empty dictionary, whether the placement is
\* on the search path or not.
C19_VisitedPlacementsStayKeys ==
    [][/\ pc # "idle" => DOMAIN position_history \subseteq DOMAIN position_history'
       /\ OrderStep =>
            \A m \in SeqToSet(LegalMoves(Cur(board))) :
                MoveScore(m, position_history)
                    = MoveScore(m, EmptyHistory)
                      - (IF Fen(MoveTable[m].to) \in DOMAIN position_history
                            /\ Evaluate(MoveTable[m].to) > WinningThreshold
                         THEN RepetitionPenalty ELSE 0)]_vars

\* at a later depth of the request order_moves has returned a list that is not
\* the one an empty dictionary gives, a move to a placement visited at an
\* earlier depth, counted 0 and off the search path, having lost 400
C19_Witness ==
    /\ Running /\ Top.pc = "loop" /\ Top.idx = 1
    /\ completed >= 1
    /\ Top.ordered # OrderMoves(LegalMoves(Cur(board)), EmptyHistory)
    /\ \E m \in SeqToSet(Top.ordered) : VisitedOffPath(m)

\* the evaluation of the position after move m for the side that played m:
\* the White-positive score for a move of White, its negative for a move of
\* Black; a won game for a move that mates
MoverPerspective(m) ==
    LET after == MoveTable[m].to
    IN  IF IsCheckmate(after) THEN Inf
        ELSE IF IsDrawn(after) THEN 0
        ELSE IF Turn(MoveTable[m].from) = WHITE THEN RawScore(after) ELSE -RawScore(after)

\* the score of move m with both thresholds tested on MoverPerspective
ScoreByMoverPerspective(m, hist) ==
    LET after == MoveTable[m].to
        ahead == MoverPerspective(m) > WinningThreshold
    IN  (IF IsCheckmate(after) THEN MateScore
         ELSE IF IsCheck(after)
              THEN CheckScore + (IF ahead THEN WinningCheckBonus ELSE 0)
                   - CheckerCapturedPenalty * CheckerCaptures(m)
              ELSE 0)
        + CaptureScore(m) + PromotionBonus(m) - CenterDistance10(m)
        + (IF Fen(after) \in DOMAIN hist /\ ahead THEN -RepetitionPenalty ELSE 0)
        + EvaluatePieceDefense(after)

\* C20: the +50 of a checking move and the -400 of a move to a placement in
\* position_history are given exactly when the position after the move is
\* worth more than 500 to the side that played the move.
C20_ThresholdsFromMoverPerspective ==
    [][OrderStep =>
        \A m \in SeqToSet(LegalMoves(Cur(board))) :
            MoveScore(m, position_history) = ScoreByMoverPerspective(m, position_history)]_vars

\* reply r takes the piece that move m has put on its destination square
ReplyCapturesChecker(m, r) ==
    /\ MoveTable[r].from = MoveTable[m].to
    /\ MoveTable[r].cap = PieceAtTargetAfterPush(m).type
    /\ MoveTable[r].file = MoveTable[m].file
    /\ MoveTable[r].rank = MoveTable[m].rank

\* some legal reply to move m takes the piece that moved
CheckerCanBeCaptured(m) ==
    \E r \in SeqToSet(LegalMoves(MoveTable[m].to)) : ReplyCapturesChecker(m, r)

\* the score of a checking move m apart from the loop over opponent_moves
ScoreApartFromReplies(m, hist) ==
    CheckScore
    + (IF Evaluate(MoveTable[m].to) > WinningThreshold THEN WinningCheckBonus ELSE 0)
    + CaptureScore(m) + PromotionBonus(m) - CenterDistance10(m)
    + RepetitionScore(m, hist) + EvaluatePieceDefense(MoveTable[m].to)

\* C21: order_moves scores a move that gives check without mating 100 lower
\* when some legal reply of the opponent captures the piece that moved, and
\* subtracts nothing when no reply captures it.
C21_CapturableCheckerPenalised ==
    [][OrderStep =>
        \A m \in SeqToSet(LegalMoves(Cur(board))) :
            (IsCheck(MoveTable[m].to) /\ ~IsCheckmate(MoveTable[m].to))
                => MoveScore(m, position_history)
                     = ScoreApartFromReplies(m, position_history)
                       - (IF CheckerCanBeCaptured(m) THEN CheckerCapturedPenalty ELSE 0)]_vars

\* the number of positions on the search path below the root with placement
\* k: the alpha_beta calls that have pushed a move leading to k and are
\* waiting for the recursive call to return
PathCount(k) ==
    Cardinality({i \in 1..Len(frames) :
        frames[i].pc = "call" /\ Fen(MoveTable[frames[i].move].to) = k})

\* the placements of the positions on the search path below the root
PathKeys ==
    {Fen(MoveTable[frames[i].move].to) : i \in {j \in 1..Len(frames) : frames[j].pc = "call"}}

\* C22: no count of position_history is ever negative, and while a search
\* runs in which no TimeoutError has been raised, every placement on the
\* search path below the root is a key and the count of every key is the
\* number of positions on that path with the placement.
C22_CountsFollowPath ==
    /\ \A k \in DOMAIN position_history : position_history[k] >= 0
    /\ (pc # "idle" /\ ~cancelled) =>
          /\ PathKeys \subseteq DOMAIN position_history
          /\ \A k \in DOMAIN position_history : position_history[k] = PathCount(k)

\* a search that has not been cancelled stands on a path that holds one
\* placement twice, next to a key visited earlier whose count is back at 0
C22_Witness ==
    /\ Running /\ ~cancelled
    /\ \E k \in DOMAIN position_history : position_history[k] = 2 /\ PathCount(k) = 2
    /\ \E k \in DOMAIN position_history : position_history[k] = 0

\* the values _evaluate_mobility assigns to board.turn, in order: each colour
\* of the loop, then the turn it stored on entry
MobilityTurnWrites(t) == <<WHITE, BLACK, t>>

\* board.turn when _evaluate_mobility returns
TurnAfterMobility(t) == MobilityTurnWrites(t)[Len(MobilityTurnWrites(t))]

\* order_moves ends, by returning its list or by raising
OrderMovesEnds ==
    /\ Running /\ Top.pc = "entry"
    /\ OrderStep \/ exc' = "AttributeError"

\* C23: when order_moves ends, the board is the board it received, no move
\* it applied for look-ahead being left on it, and the side to move after
\* the mobility count of evaluate is the side to move before it.
C23_OrderMovesKeepsBoard ==
    [][OrderMovesEnds =>
        /\ board' = board
        /\ \A p \in Positions : TurnAfterMobility(Turn(p)) = Turn(p)]_vars

\* piece q itself attacks a square of the zone of the king
PieceAttacksZone(pos, q, king) ==
    \E t \in KingZone(king) : PieceAttacks(pos, q, t[1], t[2])

\* the pieces of a colour that themselves attack the zone of the enemy king
OwnAttackers(pos, color) ==
    IF KingsOf(pos, ~color) = {} THEN {}
    ELSE LET king == CHOOSE k \in KingsOf(pos, ~color) : TRUE
         IN  {q \in pos : q.color = color /\ PieceAttacksZone(pos, q, king)}

\* C24: the pieces _evaluate_king_attack counts as attackers, and whose
\* weights it adds, are the pieces that themselves attack a square of the
\* enemy king's zone; a piece that attacks no zone square adds nothing, so
\* the score is the one computed from those pieces alone.
C24_OnlyOwnAttacksCount ==
    king_attack.done =>
        /\ king_attack.counted = OwnAttackers(placement, WHITE) \cup OwnAttackers(placement, BLACK)
        /\ king_attack.score2 = AttackValue2(OwnAttackers(placement, WHITE))
                                - AttackValue2(OwnAttackers(placement, BLACK))

====
